---- MODULE Spec2Model ----
(***************************************************************************)
(* prepare_data_nnunet.py: conversion of a directory of .tif images and a  *)
(* directory of .tif masks into the nnU-Net raw layout                     *)
(*     <output_base>/<dataset_name>/{imagesTr,labelsTr,imagesTs}           *)
(* with a dataset.json manifest.  One action per statement of              *)
(* convert_to_nnunet_format; the helper functions are operators.           *)
(***************************************************************************)
EXTENDS Integers, Sequences, FiniteSets, TLC

(***************************************************************************)
(* Bounds of the model.                                                    *)
(***************************************************************************)
\* number of calls of convert_to_nnunet_format on the same output base
MaxRuns == 2

(***************************************************************************)
(* Characters and file names.  A source file name is a sequence of         *)
(* one-character strings; Ord gives the code point Python compares by.     *)
(***************************************************************************)
Ord ==
    ("." :> 46) @@ ("B" :> 66) @@ ("F" :> 70) @@ ("I" :> 73) @@ ("T" :> 84)
    @@ ("a" :> 97) @@ ("b" :> 98) @@ ("c" :> 99) @@ ("f" :> 102)
    @@ ("i" :> 105) @@ ("t" :> 116) @@ ("x" :> 120)

\* str.lower() on one character
LowerChar(c) ==
    CASE c = "B" -> "b"
      [] c = "F" -> "f"
      [] c = "I" -> "i"
      [] c = "T" -> "t"
      [] OTHER -> c

\* str.lower()
Lower(s) == [k \in 1..Len(s) |-> LowerChar(s[k])]

\* str.endswith(suffix)
EndsWith(s, suffix) ==
    /\ Len(suffix) <= Len(s)
    /\ SubSeq(s, Len(s) - Len(suffix) + 1, Len(s)) = suffix

\* Python's str.__lt__: code-point-wise lexicographic order
RECURSIVE StrLess(_, _)
StrLess(s, t) ==
    IF t = <<>> THEN FALSE
    ELSE IF s = <<>> THEN TRUE
    ELSE IF Ord[Head(s)] # Ord[Head(t)] THEN Ord[Head(s)] < Ord[Head(t)]
    ELSE StrLess(Tail(s), Tail(t))

\* list.insert of x in front of the first element of the sorted list that is
\* greater than x (stable insertion)
RECURSIVE Insert(_, _)
Insert(x, sortedList) ==
    IF sortedList = <<>> THEN <<x>>
    ELSE IF StrLess(x, Head(sortedList)) THEN <<x>> \o sortedList
    ELSE <<Head(sortedList)>> \o Insert(x, Tail(sortedList))

\* sorted(list): stable ascending sort
RECURSIVE Sorted(_)
Sorted(list) ==
    IF list = <<>> THEN <<>>
    ELSE Insert(list[Len(list)], Sorted(SubSeq(list, 1, Len(list) - 1)))

\* [f for f in list if pred(f)] with pred = f.lower().endswith(ext.lower())
RECURSIVE FilterExt(_, _)
FilterExt(list, extension) ==
    IF list = <<>> THEN <<>>
    ELSE LET rest == FilterExt(Tail(list), extension)
         IN IF EndsWith(Lower(Head(list)), Lower(extension))
            THEN <<Head(list)>> \o rest
            ELSE rest

\* ".tif", the extension both calls of get_file_list pass
TifExt == <<".", "t", "i", "f">>

(***************************************************************************)
(* Number formatting.                                                      *)
(***************************************************************************)
Digit == <<"0", "1", "2", "3", "4", "5", "6", "7", "8", "9">>

\* str(n) / f"{n}" for n >= 0
RECURSIVE Str(_)
Str(n) == IF n < 10 THEN Digit[n + 1] ELSE Str(n \div 10) \o Digit[(n % 10) + 1]

\* width of the idx field in f"case_{idx:04d}"
PadWidth == 4

RECURSIVE Zeros(_)
Zeros(k) == IF k <= 0 THEN "" ELSE "0" \o Zeros(k - 1)

\* f"{n:04d}"
Fmt04d(n) == Zeros(PadWidth - Len(Str(n))) \o Str(n)

\* f"case_{idx:04d}"
CaseId(i) == "case_" \o Fmt04d(i)

(***************************************************************************)
(* Paths.  A path is the sequence of its components.                       *)
(***************************************************************************)
\* os.path.join(path, component)
Join(path, component) == Append(path, component)

\* all the non-empty prefixes of a path: the directories os.makedirs creates
Prefixes(path) == {SubSeq(path, 1, k) : k \in 1..Len(path)}

(***************************************************************************)
(* The inputs.  The source tree is read-only for the program: a directory  *)
(* name maps to the names of the files in it; a name outside the domain    *)
(* is not a directory.                                                     *)
(***************************************************************************)
InputTree ==
    ("images" :> { <<"b", ".", "t", "i", "f">>,
                   <<"a", ".", "t", "i", "f">>,
                   <<"c", ".", "t", "x", "t">> })
    @@ ("mask" :> { <<"a", ".", "t", "i", "f">>,
                    <<"B", ".", "T", "I", "F">> })
    @@ ("few" :> { <<"c", ".", "t", "i", "f">> })
    @@ ("empty" :> { <<"a", ".", "t", "i", "f", "f">> })

\* directory arguments a caller may pass; "nowhere" does not exist
DirArgs == DOMAIN InputTree \cup {"nowhere"}

\* the default dataset name of the signature, and another one
DatasetNames == {"Task001_ROISegmentation", "Task002_Other"}

\* the output base directory
OutputBase == <<"nnUNet_raw">>

\* os.path.isdir(directory)
IsDir(directory) == directory \in DOMAIN InputTree

\* the orders os.listdir(directory) may return the entries in
ListDirs(directory) ==
    LET names == InputTree[directory]
        n == Cardinality(names)
    IN {s \in [1..n -> names] : \A i, j \in 1..n : i # j => s[i] # s[j]}

(***************************************************************************)
(* The helper functions of the script.                                     *)
(***************************************************************************)
\* mutant: os.makedirs without exist_ok=True
MakedirsNoExistOk(existing, path, exist_ok) ==
    IF path \in existing
    THEN [error |-> "FileExistsError", dirs |-> existing]
    ELSE [error |-> "none", dirs |-> existing \cup Prefixes(path)]

\* os.makedirs(path, exist_ok=...) on the set of existing directories:
\* the error it raises (or "none") and the directories afterwards
Makedirs(existing, path, exist_ok) ==
    IF path \in existing /\ ~exist_ok
    THEN [error |-> "FileExistsError", dirs |-> existing]
    ELSE [error |-> "none", dirs |-> existing \cup Prefixes(path)]

\* mutant: the modality keys count from 1
ModalityMapOneBased(modality_names) ==
    [k \in {Str(i) : i \in 1..Len(modality_names)} |->
        modality_names[CHOOSE i \in 1..Len(modality_names) : Str(i) = k]]

\* {str(i): mod for i, mod in enumerate(modality_names)}
ModalityMap(modality_names) ==
    [k \in {Str(i - 1) : i \in 1..Len(modality_names)} |->
        modality_names[CHOOSE i \in 1..Len(modality_names) : Str(i - 1) = k]]

\* modality_names = ["CT"]
ModalityNames == <<"CT">>

\* labels = {"0": "background", "1": "roi"}
Labels == ("0" :> "background") @@ ("1" :> "roi")

\* the dict create_dataset_json builds
SkeletonJson(modality_names, labels, dataset_name) ==
    [ name |-> "ROI Dataset",
      description |-> "Converted ROI segmentation dataset",
      reference |-> "None",
      licence |-> "None",
      release |-> "1.0",
      tensorImageSize |-> "4D",
      modality |-> ModalityMap(modality_names),
      labels |-> labels,
      task |-> dataset_name,
      numTraining |-> 0,
      numTest |-> 0,
      training |-> <<>>,
      test |-> <<>> ]

\* json.dump(doc, f, indent=4): the document as it is at the time of the
\* call, as the content of a file
JsonDump(doc) == [format |-> "json", doc |-> doc]

\* the sub-directories setup_directories creates, keyed by role
SetupDirs(base_dir) ==
    [ imagesTr |-> Join(base_dir, "imagesTr"),
      labelsTr |-> Join(base_dir, "labelsTr"),
      imagesTs |-> Join(base_dir, "imagesTs") ]

\* mutant: the listing is filtered and not sorted
GetFileListUnsorted(listing, extension) == FilterExt(listing, extension)

\* sorted([f for f in os.listdir(directory) if f.lower().endswith(...)]),
\* for one order of os.listdir
GetFileList(listing, extension) == Sorted(FilterExt(listing, extension))

\* the message of the FileNotFoundError of get_file_list
NotFoundMsg(directory) == "Directory not found: " \o directory

\* mutant: get_file_list lists without checking the directory first
GetFileListErrorUnchecked(directory) == [type |-> "none", msg |-> ""]

\* the check get_file_list makes before it lists: the exception it raises
GetFileListError(directory) ==
    IF ~IsDir(directory)
    THEN [type |-> "FileNotFoundError", msg |-> NotFoundMsg(directory)]
    ELSE [type |-> "none", msg |-> ""]

\* the message of the FileNotFoundError os.listdir itself raises
ListdirMsg(directory) == "[Errno 2] No such file or directory: " \o directory

\* mutant: the counts are not compared
CountsDifferNever(data, masks) == FALSE

\* the condition of the ValueError
CountsDiffer(data, masks) == Len(data) # Len(masks)

\* the message of the ValueError
MismatchMsg(data, masks) ==
    "Number of images (" \o Str(Len(data)) \o ") and masks ("
        \o Str(Len(masks)) \o ") do not match."

\* zip(data_files, mask_files): stops at the shorter list
Zip(data, masks) ==
    LET n == IF Len(data) <= Len(masks) THEN Len(data) ELSE Len(masks)
    IN [k \in 1..n |-> <<data[k], masks[k]>>]

\* mutant: the mask goes to the directory of the images
DstMaskPathInImages(d, i) == Join(d.imagesTr, CaseId(i) \o ".nii.gz")

\* f"{case_id}_0000.nii.gz" and f"{case_id}.nii.gz"
ImageFileName(i) == CaseId(i) \o "_0000.nii.gz"
LabelFileName(i) == CaseId(i) \o ".nii.gz"

\* dst_data_path, dst_mask_path
DstDataPath(d, i) == Join(d.imagesTr, ImageFileName(i))
DstMaskPath(d, i) == Join(d.labelsTr, LabelFileName(i))

\* the training entry of case i
TrainingEntry(i) ==
    [ image |-> "./imagesTr/" \o ImageFileName(i),
      label |-> "./labelsTr/" \o LabelFileName(i) ]

\* sitk.ReadImage(tif_path): the image read from a source file
ReadImage(tif_path) == [pixels |-> tif_path]

\* the file sitk.WriteImage(img, output_path) writes
NiftiFile(img) == [format |-> "NIfTI", pixels |-> img.pixels]

\* what a failed sitk.WriteImage may leave at the destination
TruncatedFile == [format |-> "NIfTI", pixels |-> <<"truncated">>]

\* the outcomes of one convert_tif_to_nifti call: the library's read or
\* write may raise
ConvOutcomes == {"ok", "read_error", "write_error", "write_error_partial"}

\* mutant: numTraining is left at the skeleton's value
NumTrainingStale(data) == 0

\* len(data_files) of the line that sets numTraining
NumTraining(data) == Len(data)

(***************************************************************************)
(* State.                                                                  *)
(***************************************************************************)
VARIABLES
    pc,             \* position in convert_to_nnunet_format
    args,           \* the arguments of the current call
    fsDirs,         \* directories existing under the output base
    fsFiles,        \* files under the output base: path -> content
    dataset_dir,    \* local: dataset_dir
    dirs,           \* local: dirs
    dataset_json,   \* local: dataset_json (the in-memory manifest)
    data_files,     \* local: data_files
    mask_files,     \* local: mask_files
    idx,            \* local: idx of the loop
    err,            \* the exception that ended the call, if any
    written,        \* history: the paths the conversions of this call wrote to
    log,            \* history: the steps of this call, in order
    prev,           \* history: the last completed call and the output tree it left
    runs            \* number of calls started

vars == <<pc, args, fsDirs, fsFiles, dataset_dir, dirs, dataset_json,
          data_files, mask_files, idx, err, written, log, prev, runs>>

NoArgs == [input_data_dir |-> "", input_mask_dir |-> "", dataset_name |-> ""]
NoError == [type |-> "none", msg |-> ""]
\* prev.state: "none", no completed call is remembered; "fresh", the call
\* before this one completed; "stale", this call aborted after it
NoPrev == [state |-> "none", args |-> NoArgs, dirs |-> {}, files |-> <<>>]
NoDirs == [imagesTr |-> <<>>, labelsTr |-> <<>>, imagesTs |-> <<>>]
NoJson == SkeletonJson(<<>>, <<>>, "")

Init ==
    /\ pc = "idle"
    /\ args = NoArgs
    /\ fsDirs = {}
    /\ fsFiles = <<>>
    /\ dataset_dir = <<>>
    /\ dirs = NoDirs
    /\ dataset_json = NoJson
    /\ data_files = <<>>
    /\ mask_files = <<>>
    /\ idx = 0
    /\ err = NoError
    /\ written = {}
    /\ log = <<>>
    /\ prev = NoPrev
    /\ runs = 0

\* the path of dataset.json
ManifestPath == Join(dataset_dir, "dataset.json")

\* file `path` gets content `content`
WriteFile(files, path, content) ==
    [p \in (DOMAIN files) \cup {path} |-> IF p = path THEN content ELSE files[p]]

\* an exception propagates out of the call
Raise(type, msg) ==
    /\ pc' = "aborted"
    /\ err' = [type |-> type, msg |-> msg]
    /\ prev' = IF prev.state = "fresh" THEN [prev EXCEPT !.state = "stale"] ELSE prev

(***************************************************************************)
(* convert_to_nnunet_format, statement by statement.                       *)
(***************************************************************************)
\* a caller invokes convert_to_nnunet_format(input_data_dir, input_mask_dir,
\* output_base_dir, dataset_name); the locals of an earlier call are gone
Start ==
    /\ pc \in {"idle", "done", "aborted"}
    /\ runs < MaxRuns
    /\ \E d \in DirArgs, m \in DirArgs, n \in DatasetNames :
          args' = [input_data_dir |-> d, input_mask_dir |-> m, dataset_name |-> n]
    /\ runs' = runs + 1
    /\ pc' = "makedirs"
    /\ dataset_dir' = <<>>
    /\ dirs' = NoDirs
    /\ dataset_json' = NoJson
    /\ data_files' = <<>>
    /\ mask_files' = <<>>
    /\ idx' = 0
    /\ err' = NoError
    /\ written' = {}
    /\ log' = <<>>
    /\ prev' = IF prev.state = "fresh" THEN prev ELSE NoPrev
    /\ UNCHANGED <<fsDirs, fsFiles>>

\* dataset_dir = os.path.join(output_base_dir, dataset_name)
\* os.makedirs(dataset_dir, exist_ok=True)
MakeDatasetDir ==
    /\ pc = "makedirs"
    /\ LET dd == Join(OutputBase, args.dataset_name)
           r == Makedirs(fsDirs, dd, TRUE)
       IN /\ dataset_dir' = dd
          /\ fsDirs' = r.dirs
          /\ IF r.error # "none"
             THEN /\ Raise(r.error, "")
                  /\ UNCHANGED log
             ELSE /\ pc' = "setup"
                  /\ log' = Append(log, "dataset_dir")
                  /\ UNCHANGED <<err, prev>>
    /\ UNCHANGED <<args, fsFiles, dirs, dataset_json, data_files, mask_files,
                   idx, written, runs>>

\* dirs = setup_directories(dataset_dir)
SetupDirectories ==
    /\ pc = "setup"
    /\ LET d == SetupDirs(dataset_dir)
           r1 == Makedirs(fsDirs, d.imagesTr, TRUE)
           r2 == Makedirs(r1.dirs, d.labelsTr, TRUE)
           r3 == Makedirs(r2.dirs, d.imagesTs, TRUE)
           e == IF r1.error # "none" THEN r1.error
                ELSE IF r2.error # "none" THEN r2.error
                ELSE r3.error
       IN IF e # "none"
          THEN /\ Raise(e, "")
               /\ fsDirs' = IF r1.error # "none" THEN r1.dirs
                            ELSE IF r2.error # "none" THEN r2.dirs
                            ELSE r3.dirs
               /\ UNCHANGED <<dirs, log>>
          ELSE /\ pc' = "create_json"
               /\ dirs' = d
               /\ fsDirs' = r3.dirs
               /\ log' = Append(log, "directories")
               /\ UNCHANGED <<err, prev>>
    /\ UNCHANGED <<args, fsFiles, dataset_dir, dataset_json, data_files,
                   mask_files, idx, written, runs>>

\* dataset_json = create_dataset_json(dataset_dir, modality_names, labels,
\*                                    dataset_name)
CreateDatasetJson ==
    /\ pc = "create_json"
    /\ LET doc == SkeletonJson(ModalityNames, Labels, args.dataset_name)
       IN /\ fsFiles' = WriteFile(fsFiles, ManifestPath, JsonDump(doc))
          /\ dataset_json' = doc
    /\ pc' = "list_data"
    /\ log' = Append(log, "skeleton")
    /\ UNCHANGED <<args, fsDirs, dataset_dir, dirs, data_files, mask_files,
                   idx, err, written, prev, runs>>

\* data_files = get_file_list(input_data_dir, ".tif")
GetDataFiles ==
    /\ pc = "list_data"
    /\ IF GetFileListError(args.input_data_dir).type # "none"
       THEN /\ Raise(GetFileListError(args.input_data_dir).type,
                     GetFileListError(args.input_data_dir).msg)
            /\ UNCHANGED <<data_files, log>>
       ELSE IF ~IsDir(args.input_data_dir)
       THEN /\ Raise("FileNotFoundError", ListdirMsg(args.input_data_dir))
            /\ UNCHANGED <<data_files, log>>
       ELSE /\ \E listing \in ListDirs(args.input_data_dir) :
                  data_files' = GetFileList(listing, TifExt)
            /\ pc' = "list_mask"
            /\ log' = Append(log, "images_listed")
            /\ UNCHANGED <<err, prev>>
    /\ UNCHANGED <<args, fsDirs, fsFiles, dataset_dir, dirs, dataset_json,
                   mask_files, idx, written, runs>>

\* mask_files = get_file_list(input_mask_dir, ".tif")
GetMaskFiles ==
    /\ pc = "list_mask"
    /\ IF GetFileListError(args.input_mask_dir).type # "none"
       THEN /\ Raise(GetFileListError(args.input_mask_dir).type,
                     GetFileListError(args.input_mask_dir).msg)
            /\ UNCHANGED <<mask_files, log>>
       ELSE IF ~IsDir(args.input_mask_dir)
       THEN /\ Raise("FileNotFoundError", ListdirMsg(args.input_mask_dir))
            /\ UNCHANGED <<mask_files, log>>
       ELSE /\ \E listing \in ListDirs(args.input_mask_dir) :
                  mask_files' = GetFileList(listing, TifExt)
            /\ pc' = "check"
            /\ log' = Append(log, "masks_listed")
            /\ UNCHANGED <<err, prev>>
    /\ UNCHANGED <<args, fsDirs, fsFiles, dataset_dir, dirs, dataset_json,
                   data_files, idx, written, runs>>

\* the position after the loop head at index i: the body, or past the loop
LoopAt(i) ==
    IF i < Len(Zip(data_files, mask_files)) THEN "convert_data" ELSE "set_num"

\* if len(data_files) != len(mask_files): raise ValueError(...)
\* then the loop is entered with idx = 0
CheckCounts ==
    /\ pc = "check"
    /\ IF CountsDiffer(data_files, mask_files)
       THEN /\ Raise("ValueError", MismatchMsg(data_files, mask_files))
            /\ UNCHANGED <<idx, log>>
       ELSE /\ idx' = 0
            /\ pc' = LoopAt(0)
            /\ log' = Append(log, "counts_checked")
            /\ UNCHANGED <<err, prev>>
    /\ UNCHANGED <<args, fsDirs, fsFiles, dataset_dir, dirs, dataset_json,
                   data_files, mask_files, written, runs>>

\* convert_tif_to_nifti(tif_path, output_path) with the outcome the library
\* has: the files afterwards
ConvertTifToNifti(files, tif_path, output_path, outcome) ==
    CASE outcome = "ok" -> WriteFile(files, output_path, NiftiFile(ReadImage(tif_path)))
      [] outcome = "write_error_partial" -> WriteFile(files, output_path, TruncatedFile)
      [] OTHER -> files

\* the files a convert_tif_to_nifti call with this outcome wrote to
Touched(output_path, outcome) ==
    IF outcome \in {"ok", "write_error_partial"} THEN {output_path} ELSE {}

\* mutant: a failed conversion is skipped and the loop goes on with the
\* next pair
OnConvErrorSkip(outcome) ==
    /\ pc' = IF idx + 1 < Len(Zip(data_files, mask_files))
             THEN "convert_data" ELSE "set_num"
    /\ idx' = idx + 1
    /\ UNCHANGED <<err, prev>>

\* the exception of a failed convert_tif_to_nifti call is not caught: it
\* leaves the loop and the function
OnConvError(outcome) ==
    /\ Raise("RuntimeError", outcome)
    /\ UNCHANGED idx

\* convert_tif_to_nifti(src_data_path, dst_data_path)
ConvertData ==
    /\ pc = "convert_data"
    /\ \E outcome \in ConvOutcomes :
          LET src == <<args.input_data_dir, Zip(data_files, mask_files)[idx + 1][1]>>
              dst == DstDataPath(dirs, idx)
          IN /\ fsFiles' = ConvertTifToNifti(fsFiles, src, dst, outcome)
             /\ written' = written \cup Touched(dst, outcome)
             /\ IF outcome = "ok"
                THEN /\ pc' = "convert_mask"
                     /\ log' = Append(log, "image_" \o Str(idx))
                     /\ UNCHANGED <<idx, err, prev>>
                ELSE /\ OnConvError(outcome)
                     /\ log' = Append(log, "image_" \o Str(idx) \o "_failed")
    /\ UNCHANGED <<args, fsDirs, dataset_dir, dirs, dataset_json, data_files,
                   mask_files, runs>>

\* mutant: the mask is not converted before the entry is appended
ConvertMaskSkipped ==
    /\ pc = "convert_mask"
    /\ pc' = "append"
    /\ UNCHANGED <<args, fsDirs, fsFiles, dataset_dir, dirs, dataset_json,
                   data_files, mask_files, idx, err, written, log, prev, runs>>

\* convert_tif_to_nifti(src_mask_path, dst_mask_path)
ConvertMask ==
    /\ pc = "convert_mask"
    /\ \E outcome \in ConvOutcomes :
          LET src == <<args.input_mask_dir, Zip(data_files, mask_files)[idx + 1][2]>>
              dst == DstMaskPath(dirs, idx)
          IN /\ fsFiles' = ConvertTifToNifti(fsFiles, src, dst, outcome)
             /\ written' = written \cup Touched(dst, outcome)
             /\ IF outcome = "ok"
                THEN /\ pc' = "append"
                     /\ log' = Append(log, "mask_" \o Str(idx))
                     /\ UNCHANGED <<idx, err, prev>>
                ELSE /\ OnConvError(outcome)
                     /\ log' = Append(log, "mask_" \o Str(idx) \o "_failed")
    /\ UNCHANGED <<args, fsDirs, dataset_dir, dirs, dataset_json, data_files,
                   mask_files, runs>>

\* mutant: the manifest is saved after every appended entry
AppendTrainingAndSave ==
    /\ pc = "append"
    /\ dataset_json' = [dataset_json EXCEPT
                           !.training = Append(@, TrainingEntry(idx))]
    /\ fsFiles' = WriteFile(fsFiles, ManifestPath, JsonDump(dataset_json'))
    /\ idx' = idx + 1
    /\ pc' = LoopAt(idx + 1)
    /\ log' = Append(log, "entry_" \o Str(idx))
    /\ UNCHANGED <<args, fsDirs, dataset_dir, dirs, data_files,
                   mask_files, err, written, prev, runs>>

\* dataset_json['training'].append({...}); then the loop head, next idx
AppendTraining ==
    /\ pc = "append"
    /\ dataset_json' = [dataset_json EXCEPT
                           !.training = Append(@, TrainingEntry(idx))]
    /\ idx' = idx + 1
    /\ pc' = LoopAt(idx + 1)
    /\ log' = Append(log, "entry_" \o Str(idx))
    /\ UNCHANGED <<args, fsDirs, fsFiles, dataset_dir, dirs, data_files,
                   mask_files, err, written, prev, runs>>

\* dataset_json['numTraining'] = len(data_files)
SetNumTraining ==
    /\ pc = "set_num"
    /\ dataset_json' = [dataset_json EXCEPT !.numTraining = NumTraining(data_files)]
    /\ pc' = "save"
    /\ UNCHANGED <<args, fsDirs, fsFiles, dataset_dir, dirs, data_files,
                   mask_files, idx, err, written, log, prev, runs>>

\* with open(.../dataset.json, 'w') as f: json.dump(dataset_json, f, indent=4)
SaveDatasetJson ==
    /\ pc = "save"
    /\ fsFiles' = WriteFile(fsFiles, ManifestPath, JsonDump(dataset_json))
    /\ pc' = "report"
    /\ log' = Append(log, "final")
    /\ UNCHANGED <<args, fsDirs, dataset_dir, dirs, dataset_json, data_files,
                   mask_files, idx, err, written, prev, runs>>

\* the two print calls; the function returns
Report ==
    /\ pc = "report"
    /\ pc' = "done"
    /\ prev' = [state |-> "fresh", args |-> args, dirs |-> fsDirs, files |-> fsFiles]
    /\ UNCHANGED <<args, fsDirs, fsFiles, dataset_dir, dirs, dataset_json,
                   data_files, mask_files, idx, err, written, log, runs>>

Next ==
    \/ Start
    \/ MakeDatasetDir
    \/ SetupDirectories
    \/ CreateDatasetJson
    \/ GetDataFiles
    \/ GetMaskFiles
    \/ CheckCounts
    \/ ConvertData
    \/ ConvertMask
    \/ AppendTraining
    \/ SetNumTraining
    \/ SaveDatasetJson
    \/ Report

Spec == Init /\ [][Next]_vars

(***************************************************************************)
(* Properties.  The expectations below are stated on the source tree and   *)
(* the output tree, not with the operators of the conversion.              *)
(***************************************************************************)
\* the .tif files of a source directory (extension compared case-blind)
TifNames(directory) ==
    {f \in InputTree[directory] : EndsWith(Lower(f), TifExt)}

\* the element of a set of names with exactly i smaller elements
IthSmallest(names, i) ==
    CHOOSE x \in names : Cardinality({y \in names : StrLess(y, x)}) = i

\* the case identifiers in ascending order
ExpectedCaseIds == <<"case_0000", "case_0001", "case_0002", "case_0003">>

\* both input directories of the call exist
InputsExist == IsDir(args.input_data_dir) /\ IsDir(args.input_mask_dir)

\* the number of .tif files of the two input directories of the call
NumImages == Cardinality(TifNames(args.input_data_dir))
NumMasks == Cardinality(TifNames(args.input_mask_dir))

\* the call has written the final manifest
Finished == pc \in {"report", "done"}

\* the document in dataset.json of the dataset directory of the call
DiskManifest == fsFiles[<<"nnUNet_raw", args.dataset_name, "dataset.json">>].doc

\* C1: for existing input directories with N .tif files each, a call in
\* which no conversion fails ends, and ends with a dataset.json on disk
\* whose training list has N entries and whose numTraining is N.
C1_TrainingCount ==
    /\ Finished =>
          /\ InputsExist
          /\ NumImages = NumMasks
          /\ Len(DiskManifest.training) = NumImages
          /\ DiskManifest.numTraining = NumImages
          /\ DiskManifest.numTraining = Len(DiskManifest.training)
    /\ (pc = "aborted" /\ InputsExist /\ NumImages = NumMasks) =>
          err.type = "RuntimeError"

\* a call on two empty inputs has written its final manifest, after a call
\* on two inputs of two files completed
C1_Witness ==
    /\ pc = "report"
    /\ NumImages = 0
    /\ DiskManifest.numTraining = 0
    /\ prev.state = "fresh"
    /\ Cardinality(TifNames(prev.args.input_data_dir)) = 2
    /\ Len(prev.files[<<"nnUNet_raw", prev.args.dataset_name, "dataset.json">>].doc.training) = 2

\* the destination of case i in a sub-directory of the dataset directory
ExpectedPath(sub, i, suffix) ==
    <<"nnUNet_raw", args.dataset_name, sub, ExpectedCaseIds[i + 1] \o suffix>>

\* C2: at the end of a call, for every position i, the i-th smallest .tif
\* name of the image directory is the source of imagesTr/case_{i:04d}_0000.nii.gz,
\* the i-th smallest .tif name of the mask directory is the source of
\* labelsTr/case_{i:04d}.nii.gz, and the i-th training entry names these two
\* files, whatever order the directory listing came in.
C2_SortedCaseOrder ==
    Finished =>
        \A i \in 0..(NumImages - 1) :
            LET img == ExpectedPath("imagesTr", i, "_0000.nii.gz")
                lbl == ExpectedPath("labelsTr", i, ".nii.gz")
            IN /\ img \in DOMAIN fsFiles
               /\ fsFiles[img].pixels =
                     <<args.input_data_dir, IthSmallest(TifNames(args.input_data_dir), i)>>
               /\ lbl \in DOMAIN fsFiles
               /\ fsFiles[lbl].pixels =
                     <<args.input_mask_dir, IthSmallest(TifNames(args.input_mask_dir), i)>>
               /\ i < Len(DiskManifest.training)
               /\ DiskManifest.training[i + 1].image =
                     "./imagesTr/" \o ExpectedCaseIds[i + 1] \o "_0000.nii.gz"
               /\ DiskManifest.training[i + 1].label =
                     "./labelsTr/" \o ExpectedCaseIds[i + 1] \o ".nii.gz"

\* a call on "images" and "mask" is complete: "B.TIF" sorts before "a.tif"
C2_Witness ==
    /\ pc = "done"
    /\ args.input_data_dir = "images"
    /\ args.input_mask_dir = "mask"
    /\ fsFiles[ExpectedPath("labelsTr", 0, ".nii.gz")].pixels
          = <<"mask", <<"B", ".", "T", "I", "F">>>>
    /\ fsFiles[ExpectedPath("imagesTr", 1, "_0000.nii.gz")].pixels
          = <<"images", <<"b", ".", "t", "i", "f">>>>

\* the directories of the dataset of the call
ExpectedDirs ==
    { <<"nnUNet_raw">>,
      <<"nnUNet_raw", args.dataset_name>>,
      <<"nnUNet_raw", args.dataset_name, "imagesTr">>,
      <<"nnUNet_raw", args.dataset_name, "labelsTr">>,
      <<"nnUNet_raw", args.dataset_name, "imagesTs">> }

\* dataset.json of the call exists and is the skeleton
ManifestIsSkeleton ==
    /\ <<"nnUNet_raw", args.dataset_name, "dataset.json">> \in DOMAIN fsFiles
    /\ DiskManifest.numTraining = 0
    /\ DiskManifest.training = <<>>
    /\ DiskManifest.task = args.dataset_name

\* the call is past get_file_list(input_data_dir)
PastImageListing ==
    pc \notin {"idle", "makedirs", "setup", "create_json", "list_data"}

\* C3 as stated: when the image directory does not exist, the first call on
\* an empty output base aborts with nothing created under the output base
\* and no dataset.json written.
C3_Original ==
    (runs = 1 /\ pc = "aborted" /\ ~IsDir(args.input_data_dir)) =>
        (fsDirs = {} /\ DOMAIN fsFiles = {})

\* C3, amended: when the image directory does not exist, the call aborts at
\* the image listing with the missing-directory error naming it; by then the
\* dataset directory and its three sub-directories exist and dataset.json
\* holds the skeleton, and the call has written no converted file.
C3_Amended ==
    (PastImageListing /\ ~IsDir(args.input_data_dir)) =>
        /\ pc = "aborted"
        /\ err = [type |-> "FileNotFoundError",
                  msg |-> "Directory not found: " \o args.input_data_dir]
        /\ log = <<"dataset_dir", "directories", "skeleton">>
        /\ ExpectedDirs \subseteq fsDirs
        /\ ManifestIsSkeleton
        /\ written = {}

\* the first call, on a missing image directory, has aborted
C3_Witness ==
    /\ runs = 1
    /\ pc = "aborted"
    /\ args.input_data_dir = "nowhere"
    /\ err.msg = "Directory not found: nowhere"
    /\ fsDirs = ExpectedDirs

\* the error the validation of the inputs of the call must end with
ExpectedValidationError ==
    IF ~IsDir(args.input_data_dir)
    THEN [type |-> "FileNotFoundError",
          msg |-> "Directory not found: " \o args.input_data_dir]
    ELSE IF ~IsDir(args.input_mask_dir)
    THEN [type |-> "FileNotFoundError",
          msg |-> "Directory not found: " \o args.input_mask_dir]
    ELSE [type |-> "ValueError",
          msg |-> "Number of images (" \o Digit[NumImages + 1] \o ") and masks ("
                    \o Digit[NumMasks + 1] \o ") do not match."]

\* an input directory of the call is missing, or the counts differ
ValidationFails ==
    IF InputsExist THEN NumImages # NumMasks ELSE TRUE

\* C4: when an input directory does not exist or the counts differ, the call
\* never gets to a conversion (it writes no file in imagesTr or labelsTr),
\* and it aborts with the error of the failed check: missing-directory for
\* the first missing directory, else count-mismatch with both counts.
C4_ValidationBeforeConversion ==
    (pc # "idle" /\ ValidationFails) =>
        /\ pc \in {"makedirs", "setup", "create_json", "list_data",
                   "list_mask", "check", "aborted"}
        /\ written = {}
        /\ Len(log) <= 5
        /\ pc = "aborted" => err = ExpectedValidationError

\* a call on two and one files has aborted on the count check, on an
\* output tree an earlier completed call left
C4_Witness ==
    /\ pc = "aborted"
    /\ err.msg = "Number of images (2) and masks (1) do not match."
    /\ prev.state = "stale"
    /\ \A p \in DOMAIN prev.files :
          p[3] # "dataset.json" => (p \in DOMAIN fsFiles /\ fsFiles[p] = prev.files[p])

\* the events of a failed conversion
FailureEvents ==
    {"image_" \o Digit[i + 1] \o "_failed" : i \in 0..3}
        \cup {"mask_" \o Digit[i + 1] \o "_failed" : i \in 0..3}

\* a conversion of the call has failed
HasFailed == \E k \in 1..Len(log) : log[k] \in FailureEvents

\* the names of the files of the cases 0..i
NamesUpTo(i) ==
    {ExpectedCaseIds[j + 1] \o "_0000.nii.gz" : j \in 0..i}
        \cup {ExpectedCaseIds[j + 1] \o ".nii.gz" : j \in 0..i}

\* C5: once a conversion of pair i has failed the call is aborted with that
\* error: the failure is the last step, nothing of a pair after i has been
\* written, the training list holds the entries of the pairs before i only,
\* dataset.json is still the skeleton, and the converted files of the pairs
\* before i (and the image of pair i, when its mask failed) are in place.
C5_AbortAtFailingPair ==
    HasFailed =>
        /\ pc = "aborted"
        /\ err.type = "RuntimeError"
        /\ log[Len(log)] \in {"image_" \o Digit[idx + 1] \o "_failed",
                              "mask_" \o Digit[idx + 1] \o "_failed"}
        /\ \A k \in 1..(Len(log) - 1) : log[k] \notin FailureEvents \cup {"final"}
        /\ \A p \in written : p[4] \in NamesUpTo(idx)
        /\ Len(dataset_json.training) = idx
        /\ ManifestIsSkeleton
        /\ \A j \in 0..(idx - 1) :
              /\ fsFiles[ExpectedPath("imagesTr", j, "_0000.nii.gz")]
                    = [format |-> "NIfTI",
                       pixels |-> <<args.input_data_dir, data_files[j + 1]>>]
              /\ fsFiles[ExpectedPath("labelsTr", j, ".nii.gz")]
                    = [format |-> "NIfTI",
                       pixels |-> <<args.input_mask_dir, mask_files[j + 1]>>]
        /\ log[Len(log)] = "mask_" \o Digit[idx + 1] \o "_failed" =>
              fsFiles[ExpectedPath("imagesTr", idx, "_0000.nii.gz")]
                    = [format |-> "NIfTI",
                       pixels |-> <<args.input_data_dir, data_files[idx + 1]>>]

\* the mask of the second pair has failed after three conversions
C5_Witness ==
    /\ pc = "aborted"
    /\ Len(log) > 0
    /\ log[Len(log)] = "mask_1_failed"
    /\ idx = 1
    /\ Cardinality(written \cap DOMAIN fsFiles) >= 3

\* the same inputs are converted again right after a completed call
Rerun == prev.state # "none" /\ prev.args = args

\* C6: a call with the arguments of the completed call before it never
\* fails on what that call left (no FileExistsError; it aborts only when a
\* conversion fails), and when it has written its final manifest the
\* directories and the files with their contents are those the earlier call
\* left.
C6_RerunSameOutput ==
    /\ err.type # "FileExistsError"
    /\ (Rerun /\ pc = "aborted") => err.type = "RuntimeError"
    /\ (Rerun /\ pc = "report") =>
          /\ fsDirs = prev.dirs
          /\ DOMAIN fsFiles = DOMAIN prev.files
          /\ \A p \in DOMAIN fsFiles : fsFiles[p] = prev.files[p]

\* the second call on the same two files has overwritten files and manifest
C6_Witness ==
    /\ Rerun
    /\ pc = "report"
    /\ NumImages = 2
    /\ written \subseteq DOMAIN prev.files
    /\ Cardinality(written) = 4

\* the skeleton create_dataset_json must produce for a dataset name
SkeletonDoc(task) ==
    [ name |-> "ROI Dataset",
      description |-> "Converted ROI segmentation dataset",
      reference |-> "None",
      licence |-> "None",
      release |-> "1.0",
      tensorImageSize |-> "4D",
      modality |-> ("0" :> "CT"),
      labels |-> ("0" :> "background") @@ ("1" :> "roi"),
      task |-> task,
      numTraining |-> 0,
      numTest |-> 0,
      training |-> <<>>,
      test |-> <<>> ]

\* a manifest with its training list and count blanked
Blanked(doc) == [doc EXCEPT !.training = <<>>, !.numTraining = 0]

\* C7: every dataset.json on disk has the modality map {"0": "CT"} and the
\* label map {"0": "background", "1": "roi"}, and from the skeleton on the
\* manifest in memory differs from the skeleton in nothing but the training
\* list and numTraining.
C7_FixedMaps ==
    /\ \A p \in DOMAIN fsFiles :
          p[Len(p)] = "dataset.json" =>
              /\ DOMAIN fsFiles[p].doc.modality = {"0"}
              /\ fsFiles[p].doc.modality["0"] = "CT"
              /\ DOMAIN fsFiles[p].doc.labels = {"0", "1"}
              /\ fsFiles[p].doc.labels["0"] = "background"
              /\ fsFiles[p].doc.labels["1"] = "roi"
              /\ Blanked(fsFiles[p].doc) = SkeletonDoc(p[2])
    /\ Len(log) >= 3 => Blanked(dataset_json) = SkeletonDoc(args.dataset_name)

\* a final manifest of two cases has been written for the second name
C7_Witness ==
    /\ pc = "done"
    /\ args.dataset_name = "Task002_Other"
    /\ DiskManifest.numTraining = 2
    /\ Len(DiskManifest.training) = 2
    /\ DiskManifest.modality["0"] = "CT"

\* the steps of the loop for n pairs
RECURSIVE PairSteps(_)
PairSteps(n) ==
    IF n = 0 THEN <<>>
    ELSE PairSteps(n - 1)
            \o <<"image_" \o Digit[n], "mask_" \o Digit[n], "entry_" \o Digit[n]>>

\* the steps before the loop
SetupSteps ==
    <<"dataset_dir", "directories", "skeleton", "images_listed", "masks_listed",
      "counts_checked">>

\* the steps of the call, in order, for the inputs it has
ExpectedRun ==
    IF ~IsDir(args.input_data_dir) THEN SubSeq(SetupSteps, 1, 3)
    ELSE IF ~IsDir(args.input_mask_dir) THEN SubSeq(SetupSteps, 1, 4)
    ELSE IF NumImages # NumMasks THEN SubSeq(SetupSteps, 1, 5)
    ELSE SetupSteps \o PairSteps(NumImages) \o <<"final">>

\* the steps of the call that succeeded
SuccessLog == IF HasFailed THEN SubSeq(log, 1, Len(log) - 1) ELSE log

IsPrefix(s, t) == Len(s) <= Len(t) /\ s = SubSeq(t, 1, Len(s))

\* C8: the steps of a call happen in the one order: dataset directory,
\* sub-directories, skeleton, image listing, mask listing, count check, then
\* per pair in ascending order image, mask, entry, and the final manifest
\* last; the entries in memory and the files written are those of the steps
\* taken, and the manifest on disk has no entry before the final write.
C8_SequentialOrder ==
    pc # "idle" =>
        /\ IsPrefix(SuccessLog, ExpectedRun)
        /\ Finished => log = ExpectedRun
        /\ Len(dataset_json.training)
              = Cardinality({k \in 1..Len(log) :
                    log[k] \in {"entry_" \o Digit[i + 1] : i \in 0..3}})
        /\ \A i \in 0..3 :
              /\ (\E k \in 1..Len(log) : log[k] = "image_" \o Digit[i + 1])
                    <=> ExpectedPath("imagesTr", i, "_0000.nii.gz") \in written
                          /\ ~(HasFailed /\ idx = i /\ pc = "aborted"
                               /\ log[Len(log)] = "image_" \o Digit[i + 1] \o "_failed")
              /\ (\E k \in 1..Len(log) : log[k] = "entry_" \o Digit[i + 1])
                    => /\ ExpectedPath("imagesTr", i, "_0000.nii.gz") \in written
                       /\ ExpectedPath("labelsTr", i, ".nii.gz") \in written
        /\ Len(log) >= 3 /\ DiskManifest.training # <<>> => Finished

\* a call on two pairs is complete
C8_Witness ==
    /\ pc = "done"
    /\ log = <<"dataset_dir", "directories", "skeleton", "images_listed",
               "masks_listed", "counts_checked", "image_0", "mask_0",
               "entry_0", "image_1", "mask_1", "entry_1", "final">>

\* C9: whenever a call has aborted after writing the skeleton, dataset.json
\* is exactly the skeleton, however far the loop got; when the call before
\* it had completed on the same dataset directory, every file and directory
\* that call left is still there.
C9_AbortLeavesSkeleton ==
    (pc = "aborted" /\ Len(log) >= 3) =>
        /\ <<"nnUNet_raw", args.dataset_name, "dataset.json">> \in DOMAIN fsFiles
        /\ fsFiles[<<"nnUNet_raw", args.dataset_name, "dataset.json">>]
              = [format |-> "json", doc |-> SkeletonDoc(args.dataset_name)]
        /\ (prev.state = "stale" /\ prev.args.dataset_name = args.dataset_name) =>
              /\ DOMAIN prev.files \subseteq DOMAIN fsFiles
              /\ prev.dirs \subseteq fsDirs

\* a call has aborted at its second pair on the output of a completed call
\* of two cases
C9_Witness ==
    /\ pc = "aborted"
    /\ idx = 1
    /\ prev.state = "stale"
    /\ prev.args.dataset_name = args.dataset_name
    /\ prev.files[<<"nnUNet_raw", args.dataset_name, "dataset.json">>].doc.numTraining = 2
    /\ DiskManifest.numTraining = 0
    /\ DiskManifest.training = <<>>

\* the reference a manifest makes to a file of the dataset directory
RefOf(path) == "./" \o path[3] \o "/" \o path[4]

\* C10: when a call has written its final manifest, the destinations of the
\* cases are pairwise distinct, the files the call wrote are exactly the
\* files the training entries reference (each by one entry), none of them is
\* in imagesTs, and the manifest has numTest 0 and an empty test list.
C10_FilesMatchEntries ==
    Finished =>
        LET entries == DiskManifest.training
            n == Len(entries)
        IN /\ n = NumImages
           /\ Cardinality(written) = 2 * n
           /\ \A i, j \in 1..n : i # j =>
                 /\ entries[i].image # entries[j].image
                 /\ entries[i].label # entries[j].label
           /\ \A i, j \in 1..n : entries[i].image # entries[j].label
           /\ {RefOf(p) : p \in {q \in written : q[3] = "imagesTr"}}
                 = {entries[i].image : i \in 1..n}
           /\ {RefOf(p) : p \in {q \in written : q[3] = "labelsTr"}}
                 = {entries[i].label : i \in 1..n}
           /\ \A p \in written :
                 /\ p \in DOMAIN fsFiles
                 /\ SubSeq(p, 1, 2) = <<"nnUNet_raw", args.dataset_name>>
                 /\ p[3] \in {"imagesTr", "labelsTr"}
           /\ \A p \in DOMAIN fsFiles : p[3] # "imagesTs"
           /\ DiskManifest.numTest = 0
           /\ DiskManifest.test = <<>>

\* a call on two pairs is complete with four files written
C10_Witness ==
    /\ pc = "done"
    /\ Cardinality(written) = 4
    /\ Len(DiskManifest.training) = 2

====
